---- MODULE Spec2Model ----
(***************************************************************************)
(* Model of the Dagger module DudleysSecondBedroom                         *)
(* (.dagger/src/dudleys_second_bedroom/main.py).                           *)
(*                                                                         *)
(* The module's functions build container pipelines through the Dagger API.*)
(* A dagger.Container is a lazy handle: with_exec, from_, docker_build ... *)
(* only extend the chain of operations, and the engine executes the chain  *)
(* when a leaf value is requested (sync, stdout, publish).  The model keeps*)
(* that distinction: a container is the sequence of its pending operations,*)
(* and EngineRun executes such a sequence until the first operation that   *)
(* exits non-zero.                                                         *)
(*                                                                         *)
(* Strings whose characters matter (config_file, repository) are sequences *)
(* of one-character strings.                                               *)
(***************************************************************************)
EXTENDS Integers, Sequences, FiniteSets, TLC

\* ---------------------------------------------------------------- bounds

MaxCfgLen == 2
MaxRepoLen == 2

\* --------------------------------------------------------------- strings

CfgAlphabet == {"/", ".", "a"}
RepoAlphabet == {"/", "a"}

StringsUpTo(alphabet, n) == UNION {[1..k -> alphabet] : k \in 0..n}

\* Python's str.split("/"): the segments between the separators, at least one.
RECURSIVE Split(_)
Split(s) ==
    IF \A i \in 1..Len(s) : s[i] # "/"
    THEN <<s>>
    ELSE LET i == CHOOSE k \in 1..Len(s) :
                      s[k] = "/" /\ \A j \in 1..(k - 1) : s[j] # "/"
         IN  <<SubSeq(s, 1, i - 1)>> \o Split(SubSeq(s, i + 1, Len(s)))

\* seq[-1]
LastOf(seq) == seq[Len(seq)]


\* ----------------------------------------------------------------- state

VARIABLES
    \* one ci_pipeline invocation
    pc,          \* position in ci_pipeline
    results,     \* the list `results` of ci_pipeline
    inputs,      \* the arguments of the invocation
    world,       \* what every external command does for this source tree / registry
    calls,       \* the stage methods called so far, in call order
    engineLog,   \* the operations the engine has executed, in execution order
    validation,  \* the container returned by self.validate(source)
    image,       \* the container returned by self.build(...)
    buildCall,   \* the keyword arguments ci_pipeline passed to build
    pushedRef,   \* the set of references pushed to the registry
    report,      \* the value ci_pipeline returned
    \* one validate(source) call, evaluated by the engine one operation at a time
    vsrc, vchain, vpos, vstatus, vlog,
    \* the two most recent build_iso / build_qcow2 calls
    diskPrev, diskLast,
    \* the two most recent docker builds requested
    buildPrev, buildLast

pipeVars == <<pc, results, inputs, world, calls, engineLog, validation, image,
              buildCall, pushedRef, report>>
valVars == <<vsrc, vchain, vpos, vstatus, vlog>>
diskVars == <<diskPrev, diskLast>>
buildVars == <<buildPrev, buildLast>>
vars == <<pipeVars, valVars, diskVars, buildVars>>
notPipeVars == <<valVars, diskVars, buildVars>>
notValVars == <<pipeVars, diskVars, buildVars>>
notDiskVars == <<pipeVars, valVars, buildVars>>
notBuildVars == <<pipeVars, valVars, diskVars>>

None == [kind |-> "none"]
NoCall == [fn |-> "none"]

\* ------------------------------------------------- the engine's operations

\* What each external command does is a property of the source tree, the
\* network and the registry; the module does not control it.
Worlds ==
    [pull : BOOLEAN, dnf : BOOLEAN, shellcheck : BOOLEAN, jq : BOOLEAN,
     modules : BOOLEAN, packages : BOOLEAN, build : BOOLEAN,
     tests : 0..4, registry : {"ok", "auth_fail", "push_fail"}]

\* Exit status of one operation of a container chain.  Mounts and workdir
\* changes cannot fail; from_, docker_build and every with_exec can.
ExitsZero(o, w) ==
    CASE o.step = "from" -> w.pull
      [] o.step = "dnf" -> w.dnf
      [] o.step = "shellcheck" -> w.shellcheck
      [] o.step = "jq" -> w.jq
      [] o.step = "validate-modules" -> w.modules
      [] o.step = "validate-packages" -> w.packages
      [] o.step = "docker_build" -> w.build
      [] o.step = "test1" -> w.tests # 1
      [] o.step = "test2" -> w.tests # 2
      [] o.step = "test3" -> w.tests # 3
      [] o.step = "test4" -> w.tests # 4
      [] o.step = "registry-auth" -> w.registry # "auth_fail"
      [] o.step = "push" -> w.registry = "ok"
      [] OTHER -> TRUE

\* The engine executes a chain in order and stops at the first operation that
\* exits non-zero: the operations executed (the failing one included).
RECURSIVE Executed(_, _)
Executed(chain, w) ==
    IF Len(chain) = 0 THEN <<>>
    ELSE IF ExitsZero(chain[1], w)
         THEN <<chain[1]>> \o Executed(Tail(chain), w)
         ELSE <<chain[1]>>

Succeeds(chain, w) == \A i \in 1..Len(chain) : ExitsZero(chain[i], w)

\* Operations already executed in this session are served from the engine's
\* cache; only the others are executed (and logged).
RECURSIVE Fresh(_, _)
Fresh(ops, log) ==
    IF Len(ops) = 0 THEN <<>>
    ELSE IF \E i \in 1..Len(log) : log[i] = ops[1]
         THEN Fresh(Tail(ops), log)
         ELSE <<ops[1]>> \o Fresh(Tail(ops), log)

EngineRun(chain, w, log) == log \o Fresh(Executed(chain, w), log)

\* ---------------------------------------------------------------- validate

\* Mutant: the last validation script is not run.
ValidateChainWithoutPackages ==
    << [op |-> "from", step |-> "from"],
       [op |-> "with_exec", step |-> "dnf"],
       [op |-> "with_directory", step |-> "mount-source"],
       [op |-> "with_workdir", step |-> "workdir"],
       [op |-> "with_exec", step |-> "shellcheck"],
       [op |-> "with_exec", step |-> "jq"],
       [op |-> "with_exec", step |-> "validate-modules"] >>

\* Mutant: the JSON check comes after validate-modules.sh.
ValidateChainJsonAfterModules ==
    << [op |-> "from", step |-> "from"],
       [op |-> "with_exec", step |-> "dnf"],
       [op |-> "with_directory", step |-> "mount-source"],
       [op |-> "with_workdir", step |-> "workdir"],
       [op |-> "with_exec", step |-> "shellcheck"],
       [op |-> "with_exec", step |-> "validate-modules"],
       [op |-> "with_exec", step |-> "jq"],
       [op |-> "with_exec", step |-> "validate-packages"] >>

\* validate(source): the container chain of lines 45-55, in call order.
ValidateChain ==
    << [op |-> "from", step |-> "from"],
       [op |-> "with_exec", step |-> "dnf"],
       [op |-> "with_directory", step |-> "mount-source"],
       [op |-> "with_workdir", step |-> "workdir"],
       [op |-> "with_exec", step |-> "shellcheck"],
       [op |-> "with_exec", step |-> "jq"],
       [op |-> "with_exec", step |-> "validate-modules"],
       [op |-> "with_exec", step |-> "validate-packages"] >>

ValidateWorlds ==
    {w \in Worlds : w.build /\ w.tests = 0 /\ w.registry = "ok"}

ValInit ==
    /\ vsrc \in ValidateWorlds
    /\ vchain = <<>>
    /\ vpos = 0
    /\ vstatus = "idle"
    /\ vlog = <<>>

ValIdle ==
    /\ vsrc = CHOOSE w \in ValidateWorlds :
                 w.pull /\ w.dnf /\ w.shellcheck /\ w.jq /\ w.modules /\ w.packages
    /\ vchain = <<>>
    /\ vpos = 0
    /\ vstatus = "idle"
    /\ vlog = <<>>

\* The call itself only builds the chain and returns the lazy container.
Validate ==
    /\ vstatus = "idle"
    /\ vchain' = ValidateChain
    /\ vstatus' = "lazy"
    /\ UNCHANGED <<vsrc, vpos, vlog>>
    /\ UNCHANGED notValVars

\* The caller forces the container: the engine executes the next operation.
ValidateExec ==
    /\ vstatus \in {"lazy", "running"}
    /\ vpos < Len(vchain)
    /\ LET o == vchain[vpos + 1]
           zero == ExitsZero(o, vsrc)
       IN  /\ vlog' = Append(vlog, [step |-> o.step, zero |-> zero])
           /\ vpos' = vpos + 1
           /\ vstatus' = IF ~zero THEN "failed"
                         ELSE IF vpos + 1 = Len(vchain) THEN "ok"
                         ELSE "running"
    /\ UNCHANGED <<vsrc, vchain>>
    /\ UNCHANGED notValVars

\* ------------------------------------------------------ disk image builders

ConfigDir == <<"/", "c", "o", "n", "f", "i", "g", "/">>

\* Mutant: the directory prefix of config_file is kept.
ConfigPathWithPrefix(config_file) == ConfigDir \o config_file

\* f"/config/{config_file.split('/')[-1]}"
ConfigPath(config_file) == ConfigDir \o LastOf(Split(config_file))

\* The container chain of build_iso / build_qcow2 and the file it selects.
DiskBuild(type, output, config_file, image_ref) ==
    [from |-> "quay.io/centos-bootc/bootc-image-builder:latest",
     mount |-> [path |-> "/config", dir |-> "disk_config"],
     exec |-> [tool |-> "bootc-image-builder", type |-> type,
               config |-> ConfigPath(config_file), image |-> image_ref],
     file |-> output]

ConfigFiles == StringsUpTo(CfgAlphabet, MaxCfgLen)
ImageRefs == {"ghcr.io/owner/repo:tag"}

DiskInit ==
    /\ diskPrev = NoCall
    /\ diskLast = NoCall

BuildIso ==
    \E config_file \in ConfigFiles, image_ref \in ImageRefs :
        /\ UNCHANGED notDiskVars
        /\ diskPrev' = diskLast
        /\ diskLast' = [fn |-> "build_iso", config_file |-> config_file,
                        result |-> DiskBuild("iso", "/output/image.iso",
                                             config_file, image_ref)]

BuildQcow2 ==
    \E config_file \in ConfigFiles, image_ref \in ImageRefs :
        /\ UNCHANGED notDiskVars
        /\ diskPrev' = diskLast
        /\ diskLast' = [fn |-> "build_qcow2", config_file |-> config_file,
                        result |-> DiskBuild("qcow2", "/output/image.qcow2",
                                             config_file, image_ref)]


\* -------------------------------------------------------------------- build

DefaultImageName == <<"d", "u", "d", "l", "e", "y", "s", "-", "s", "e", "c", "o", "n", "d", "-", "b", "e", "d", "r", "o", "o", "m">>
DefaultBaseImage == "ghcr.io/ublue-os/bluefin-dx:latest"
TagLatest == <<"l", "a", "t", "e", "s", "t">>
TagV1 == <<"v", "1">>
DefaultRegistry == <<"g", "h", "c", "r", ".", "i", "o">>

\* build_args of source.docker_build (lines 109-112)
BuildArgs(image_name, git_commit) ==
    << [name |-> "IMAGE_NAME", value |-> image_name],
       [name |-> "SHA_HEAD_SHORT", value |-> git_commit] >>

\* build(...): the lazy container source.docker_build(...) returns; nothing is
\* built until a leaf value of the container is requested.
Build(source, image_name, tag, base_image, git_commit) ==
    << [op |-> "docker_build", step |-> "docker_build", source |-> source,
        dockerfile |-> "Containerfile",
        build_args |-> BuildArgs(image_name, git_commit)] >>

\* Mutant: the first segment of repository (the owner) instead of the last.
CiImageNameFirstSegment(repository) ==
    IF repository # <<>> THEN Split(repository)[1] ELSE DefaultImageName

\* repository.split("/")[-1] if repository else "dudleys-second-bedroom"
CiImageName(repository) ==
    IF repository # <<>> THEN LastOf(Split(repository)) ELSE DefaultImageName

\* The arguments ci_pipeline gives to build (lines 387-392); base_image is
\* not passed and takes build's default.
CiBuildKwargs(source, repository, tag, git_commit) ==
    [source |-> source, image_name |-> CiImageName(repository), tag |-> tag,
     base_image |-> DefaultBaseImage, git_commit |-> git_commit]

BuildOf(kw) == Build(kw.source, kw.image_name, kw.tag, kw.base_image, kw.git_commit)

Sources == {"tree"}
Repositories == StringsUpTo(RepoAlphabet, MaxRepoLen)
Tags == {TagLatest, TagV1}
GitCommits == {"unknown", "abc1234"}
ImageNames == {DefaultImageName, <<"a">>, <<>>}
BaseImages == {DefaultBaseImage, "ghcr.io/ublue-os/bazzite:latest"}

BuildInit ==
    /\ buildPrev = NoCall
    /\ buildLast = NoCall

\* A direct call of build.
BuildDirect ==
    \E source \in Sources, image_name \in ImageNames, tag \in Tags,
       base_image \in BaseImages, git_commit \in GitCommits :
        /\ UNCHANGED notBuildVars
        /\ buildPrev' = buildLast
        /\ buildLast' =
             [fn |-> "build",
              kwargs |-> [source |-> source, image_name |-> image_name,
                          tag |-> tag, base_image |-> base_image,
                          git_commit |-> git_commit],
              container |-> Build(source, image_name, tag, base_image, git_commit)]

\* The build requested by one ci_pipeline invocation: none when the
\* validation raises, otherwise the call of lines 387-392.
BuildViaPipeline ==
    \E source \in Sources, repository \in Repositories, tag \in Tags,
       git_commit \in GitCommits, validates \in BOOLEAN :
        /\ UNCHANGED notBuildVars
        /\ IF validates
           THEN /\ buildPrev' = buildLast
                /\ buildLast' =
                     [fn |-> "ci_pipeline", repository |-> repository,
                      kwargs |-> CiBuildKwargs(source, repository, tag, git_commit),
                      container |-> BuildOf(CiBuildKwargs(source, repository, tag,
                                                          git_commit))]
           ELSE UNCHANGED <<buildPrev, buildLast>>

\* --------------------------------------------------------------------- test

\* test(image): four commands in the built image, then stdout() (lines 161-168)
TestChain(img) ==
    img \o << [op |-> "with_exec", step |-> "test1"],
              [op |-> "with_exec", step |-> "test2"],
              [op |-> "with_exec", step |-> "test3"],
              [op |-> "with_exec", step |-> "test4"] >>

\* ------------------------------------------------------------------ publish

\* Mutant: the tag of the invocation is ignored.
PublishRefLatest(registry, repository, tag) ==
    registry \o <<"/">> \o repository \o <<":">> \o TagLatest

\* f"{registry}/{repository}:{tag}"
PublishRef(registry, repository, tag) ==
    registry \o <<"/">> \o repository \o <<":">> \o tag

\* publish(...): registry auth, then the push of image_ref (lines 220-224)
PublishChain(img, registry, repository, tag) ==
    img \o << [op |-> "with_registry_auth", step |-> "registry-auth",
               registry |-> registry],
              [op |-> "publish", step |-> "push",
               ref |-> PublishRef(registry, repository, tag)] >>

\* -------------------------------------------------------------- ci_pipeline

NoSecret == "None"
Secrets == {NoSecret, "secret"}

\* Mutant: `and` in place of `or`.
CredentialsBothMissing(username, password) ==
    username = NoSecret /\ password = NoSecret

\* `not username or not password`
CredentialsMissing(username, password) ==
    username = NoSecret \/ password = NoSecret

Line(stage, kind, text) == [stage |-> stage, kind |-> kind, text |-> text]

\* Mutant: the publish block placed before the test block.
NextStagePublishFirst(stage) ==
    CASE stage = "validate" -> "build"
      [] stage = "build" -> "publish"
      [] stage = "publish" -> "test"
      [] stage = "test" -> "return"

\* The order of the stage blocks in the body of ci_pipeline.
NextStage(stage) ==
    CASE stage = "validate" -> "build"
      [] stage = "build" -> "test"
      [] stage = "test" -> "publish"
      [] stage = "publish" -> "return"

PipelineInputs ==
    [source : Sources, repository : Repositories, registry : {DefaultRegistry},
     tag : Tags, git_commit : {"abc1234"}, username : Secrets,
     password : Secrets, run_tests : BOOLEAN, publish_image : BOOLEAN]

\* The worlds of a pipeline run: every outcome of build, tests and registry
\* for a source tree that validates, and each single failing validation step.
ValidateSteps == {"pull", "dnf", "shellcheck", "jq", "modules", "packages"}
PassingWorlds ==
    [pull : {TRUE}, dnf : {TRUE}, shellcheck : {TRUE}, jq : {TRUE},
     modules : {TRUE}, packages : {TRUE}, build : BOOLEAN,
     tests : 0..4, registry : {"ok", "auth_fail", "push_fail"}]
PipelineWorlds ==
    PassingWorlds \cup
      {[w EXCEPT ![f] = FALSE] :
          w \in {v \in PassingWorlds : v.build /\ v.tests = 0 /\ v.registry = "ok"},
          f \in ValidateSteps}

PipeInit ==
    /\ pc = "validate"
    /\ results = <<>>
    /\ inputs \in PipelineInputs
    /\ world \in PipelineWorlds
    /\ calls = <<>>
    /\ engineLog = <<>>
    /\ validation = None
    /\ image = None
    /\ buildCall = None
    /\ pushedRef = {}
    /\ report = None

PipeIdle ==
    /\ pc = "idle"
    /\ results = <<>>
    /\ inputs = None
    /\ world = None
    /\ calls = <<>>
    /\ engineLog = <<>>
    /\ validation = None
    /\ image = None
    /\ buildCall = None
    /\ pushedRef = {}
    /\ report = None

\* lines 377-381: the progress line, then self.validate(source)
CiValidateBegin ==
    /\ pc = "validate"
    /\ results' = Append(results, Line("validate", "progress", "Running validation..."))
    /\ calls' = Append(calls, "validate")
    /\ validation' = ValidateChain
    /\ pc' = "validate_sync"
    /\ UNCHANGED <<inputs, world, engineLog, image, buildCall, pushedRef, report>>
    /\ UNCHANGED notPipeVars

\* lines 382-383: await validation.sync() raises or the success line follows
CiValidateSync ==
    /\ pc = "validate_sync"
    /\ engineLog' = EngineRun(validation, world, engineLog)
    /\ IF Succeeds(validation, world)
       THEN /\ results' = Append(results, Line("validate", "success", "Validation passed"))
            /\ pc' = NextStage("validate")
       ELSE /\ pc' = "error"
            /\ UNCHANGED results
    /\ UNCHANGED <<inputs, world, calls, validation, image, buildCall, pushedRef, report>>
    /\ UNCHANGED notPipeVars

\* lines 386-393: self.build(...) returns the lazy container at once, and the
\* success line follows without any evaluation of it.
CiBuild ==
    /\ pc = "build"
    /\ LET kw == CiBuildKwargs(inputs.source, inputs.repository, inputs.tag,
                               inputs.git_commit)
       IN  /\ buildCall' = kw
           /\ image' = BuildOf(kw)
    /\ calls' = Append(calls, "build")
    /\ results' = results \o
                    << Line("build", "progress", <<"Building image", inputs.git_commit>>),
                       Line("build", "success", "Build completed") >>
    /\ pc' = NextStage("build")
    /\ UNCHANGED <<inputs, world, engineLog, validation, pushedRef, report>>
    /\ UNCHANGED notPipeVars

\* Mutant: the tests are started although run_tests is false.
CiTestSkipRunsTests ==
    /\ pc = "test"
    /\ ~inputs.run_tests
    /\ results' = Append(results, Line("test", "progress", "Running tests..."))
    /\ calls' = Append(calls, "test")
    /\ pc' = "test_await"
    /\ UNCHANGED <<inputs, world, engineLog, validation, image, buildCall,
                   pushedRef, report>>
    /\ UNCHANGED notPipeVars

\* line 396, run_tests false
CiTestSkip ==
    /\ pc = "test"
    /\ ~inputs.run_tests
    /\ pc' = NextStage("test")
    /\ UNCHANGED <<results, inputs, world, calls, engineLog, validation, image,
                   buildCall, pushedRef, report>>
    /\ UNCHANGED notPipeVars

\* lines 396-398: the progress line, then self.test(image)
CiTestBegin ==
    /\ pc = "test"
    /\ inputs.run_tests
    /\ results' = Append(results, Line("test", "progress", "Running tests..."))
    /\ calls' = Append(calls, "test")
    /\ pc' = "test_await"
    /\ UNCHANGED <<inputs, world, engineLog, validation, image, buildCall,
                   pushedRef, report>>
    /\ UNCHANGED notPipeVars

\* lines 161-170 and 399: stdout() makes the engine run the build and the four
\* commands; test raises, or its result string is appended.
CiTestAwait ==
    /\ pc = "test_await"
    /\ engineLog' = EngineRun(TestChain(image), world, engineLog)
    /\ IF Succeeds(TestChain(image), world)
       THEN /\ results' = Append(results, Line("test", "success", "All tests passed!"))
            /\ pc' = NextStage("test")
       ELSE /\ pc' = "error"
            /\ UNCHANGED results
    /\ UNCHANGED <<inputs, world, calls, validation, image, buildCall, pushedRef, report>>
    /\ UNCHANGED notPipeVars

\* line 402, publish_image false
CiPublishSkip ==
    /\ pc = "publish"
    /\ ~inputs.publish_image
    /\ pc' = NextStage("publish")
    /\ UNCHANGED <<results, inputs, world, calls, engineLog, validation, image,
                   buildCall, pushedRef, report>>
    /\ UNCHANGED notPipeVars

\* lines 403-404
CiPublishWarn ==
    /\ pc = "publish"
    /\ inputs.publish_image
    /\ CredentialsMissing(inputs.username, inputs.password)
    /\ results' = Append(results,
                         Line("publish", "warning",
                              "Skipping publish: username and password required"))
    /\ pc' = NextStage("publish")
    /\ UNCHANGED <<inputs, world, calls, engineLog, validation, image, buildCall,
                   pushedRef, report>>
    /\ UNCHANGED notPipeVars

\* lines 405-414: the progress line, then self.publish(...)
CiPublishBegin ==
    /\ pc = "publish"
    /\ inputs.publish_image
    /\ ~CredentialsMissing(inputs.username, inputs.password)
    /\ results' = Append(results, Line("publish", "progress", "Publishing image..."))
    /\ calls' = Append(calls, "publish")
    /\ pc' = "publish_await"
    /\ UNCHANGED <<inputs, world, engineLog, validation, image, buildCall,
                   pushedRef, report>>
    /\ UNCHANGED notPipeVars

\* lines 217-226 and 415: publish() makes the engine run the image's chain,
\* authenticate and push; publish raises, or its result string is appended.
CiPublishAwait ==
    /\ pc = "publish_await"
    /\ LET chain == PublishChain(image, inputs.registry, inputs.repository, inputs.tag)
       IN  /\ engineLog' = EngineRun(chain, world, engineLog)
           /\ IF Succeeds(chain, world)
              THEN /\ pushedRef' = pushedRef \cup {chain[Len(chain)].ref}
                   /\ results' = Append(results,
                                        Line("publish", "success",
                                             <<"Published to", chain[Len(chain)].ref>>))
                   /\ pc' = NextStage("publish")
              ELSE /\ pc' = "error"
                   /\ UNCHANGED <<results, pushedRef>>
    /\ UNCHANGED <<inputs, world, calls, validation, image, buildCall, report>>
    /\ UNCHANGED notPipeVars

\* line 417
CiReturn ==
    /\ pc = "return"
    /\ report' = [lines |-> results]
    /\ pc' = "done"
    /\ UNCHANGED <<results, inputs, world, calls, engineLog, validation, image,
                   buildCall, pushedRef>>
    /\ UNCHANGED notPipeVars

\* ----------------------------------------------------------- specifications

PipeNext ==
    \/ CiValidateBegin
    \/ CiValidateSync
    \/ CiBuild
    \/ CiTestSkip
    \/ CiTestBegin
    \/ CiTestAwait
    \/ CiPublishSkip
    \/ CiPublishWarn
    \/ CiPublishBegin
    \/ CiPublishAwait
    \/ CiReturn

\* one ci_pipeline invocation
Init == PipeInit /\ ValIdle /\ DiskInit /\ BuildInit
Next == PipeNext
Spec == Init /\ [][Next]_vars

\* one validate call, forced by its caller
InitValidate == ValInit /\ PipeIdle /\ DiskInit /\ BuildInit
NextValidate == Validate \/ ValidateExec
SpecValidate == InitValidate /\ [][NextValidate]_vars

\* calls of the disk image builders
InitDisk == DiskInit /\ PipeIdle /\ ValIdle /\ BuildInit
NextDisk == BuildIso \/ BuildQcow2
SpecDisk == InitDisk /\ [][NextDisk]_vars

\* docker builds requested directly and through ci_pipeline
InitBuild == BuildInit /\ PipeIdle /\ ValIdle /\ DiskInit
NextBuild == BuildDirect \/ BuildViaPipeline
SpecBuild == InitBuild /\ [][NextBuild]_vars

\* ------------------------------------------------- vocabulary of the claims

StageRank(stage) ==
    CASE stage = "validate" -> 1
      [] stage = "build" -> 2
      [] stage = "test" -> 3
      [] stage = "publish" -> 4

\* The stage an engine operation belongs to.
StepStage(step) ==
    IF step = "docker_build" THEN "build"
    ELSE IF step \in {"test1", "test2", "test3", "test4"} THEN "test"
    ELSE IF step \in {"registry-auth", "push"} THEN "publish"
    ELSE "validate"

PcRank(p) ==
    CASE p = "validate" -> 1
      [] p = "validate_sync" -> 2
      [] p = "build" -> 3
      [] p = "test" -> 4
      [] p = "test_await" -> 5
      [] p = "publish" -> 6
      [] p = "publish_await" -> 7
      [] p = "return" -> 8
      [] OTHER -> 9

Called(stage) == \E i \in 1..Len(calls) : calls[i] = stage
Ran(step) == \E i \in 1..Len(engineLog) : engineLog[i].step = step
HasLine(lines, stage, kind) ==
    \E i \in 1..Len(lines) : lines[i].stage = stage /\ lines[i].kind = kind

\* What the source tree and the registry would let each stage do.
ValidationPasses ==
    /\ world.pull /\ world.dnf /\ world.shellcheck
    /\ world.jq /\ world.modules /\ world.packages
PipelineRunning == pc # "idle"

\* The stage's work has been executed by the engine, and it exited zero.
StageCompleted(stage) ==
    CASE stage = "validate" -> Ran("validate-packages") /\ ValidationPasses
      [] stage = "build" -> Ran("docker_build") /\ world.build
      [] stage = "test" -> Ran("test4") /\ world.tests = 0
      [] stage = "publish" -> Ran("push") /\ world.registry = "ok"

\* The part of s after its last "/" (all of s when it has none).
AfterLastSlash(s) ==
    LET slashes == {i \in 1..Len(s) : s[i] = "/"}
    IN  IF slashes = {} THEN s
        ELSE LET last == CHOOSE i \in slashes : \A j \in slashes : j <= i
             IN  SubSeq(s, last + 1, Len(s))

\* ------------------------------------------------------------------ claims

\* C1: in every run of ci_pipeline the stages that are invoked are invoked in
\* the order Validate, Build, Test, Publish, each at most once; a stage is
\* invoked only when no earlier stage is still in flight and every stage
\* invoked before it has reported success; control never goes back; and the
\* engine executes the stages' operations in that same order.
C1_StagesInFixedOrder ==
    /\ [](\A i, j \in 1..Len(calls) :
             i < j => StageRank(calls[i]) < StageRank(calls[j]))
    /\ [](\A i, j \in 1..Len(engineLog) :
             i < j => StageRank(StepStage(engineLog[i].step))
                        <= StageRank(StepStage(engineLog[j].step)))
    /\ [][PcRank(pc') >= PcRank(pc)]_vars
    /\ [][Len(calls') > Len(calls) =>
            /\ pc \in {"validate", "build", "test", "publish"}
            /\ calls' = Append(calls, pc)
            /\ \A i \in 1..Len(calls) : HasLine(results, calls[i], "success")]_vars

C1_Witness ==
    /\ pc = "done"
    /\ calls = <<"validate", "build", "test", "publish">>

\* C2: a failed stage aborts the rest of ci_pipeline: after a failed validation
\* nothing else is invoked; after a failed build Test and Publish are never
\* invoked; in both cases the run ends with an error and returns no report.
C2_FailedStageAborts ==
    PipelineRunning =>
      /\ (~ValidationPasses =>
            /\ calls \in {<<>>, <<"validate">>}
            /\ pc \in {"validate", "validate_sync", "error"}
            /\ report = None)
      /\ (ValidationPasses /\ ~world.build =>
            /\ ~Called("test") /\ ~Called("publish")
            /\ pc \notin {"return", "done"}
            /\ report = None)

C4_MissingCredentialsSkip ==
    (PipelineRunning /\ inputs.publish_image
       /\ (inputs.username = NoSecret \/ inputs.password = NoSecret)
       /\ ValidationPasses /\ world.build
       /\ (inputs.run_tests => world.tests = 0)) =>
      /\ ~Called("publish")
      /\ ~Ran("registry-auth") /\ ~Ran("push")
      /\ pushedRef = {}
      /\ pc # "error"
      /\ (pc # "done" => ENABLED PipeNext)
      /\ (pc \in {"return", "done"} => HasLine(results, "publish", "warning"))
      /\ (pc = "done" => report # None /\ HasLine(report.lines, "publish", "warning"))

C4_Witness ==
    /\ pc = "done"
    /\ inputs.publish_image
    /\ inputs.username # NoSecret /\ inputs.password = NoSecret
    /\ HasLine(report.lines, "publish", "warning")

\* C5: at every point of a ci_pipeline run, every success marker in the report
\* accumulated so far belongs to a stage that has completed successfully.
\* (Progress and warning lines are not counted as stage markers here; the
\* claim, which speaks of every line of a stage, is stronger.)
C5_OnlyCompletedStageMarkers ==
    PipelineRunning =>
      \A i \in 1..Len(results) :
          results[i].kind = "success" => StageCompleted(results[i].stage)

\* C6 as stated: validate succeeds exactly when the source tree passes the four
\* checks (shellcheck, jq, validate-modules.sh, validate-packages.sh); nothing
\* else decides the outcome.
C6_FourChecksDecide ==
    vstatus \in {"ok", "failed"} =>
      (vstatus = "ok" <=>
         vsrc.shellcheck /\ vsrc.jq /\ vsrc.modules /\ vsrc.packages)

\* C6 as amended: validate succeeds exactly when the base image is pulled, the
\* dnf install of the tools exits zero and the source tree passes the four
\* checks.
C6_SetupAndFourChecksDecide ==
    vstatus \in {"ok", "failed"} =>
      (vstatus = "ok" <=>
         /\ vsrc.pull /\ vsrc.dnf
         /\ vsrc.shellcheck /\ vsrc.jq /\ vsrc.modules /\ vsrc.packages)

C6_Witness ==
    /\ vstatus = "failed"
    /\ vsrc.pull /\ vsrc.dnf /\ vsrc.shellcheck /\ vsrc.jq /\ vsrc.modules
    /\ ~vsrc.packages

CheckOrder == <<"shellcheck", "jq", "validate-modules", "validate-packages">>
ChecksRun == SelectSeq(vlog, LAMBDA e : \E k \in 1..4 : CheckOrder[k] = e.step)
VRan(step) == \E i \in 1..Len(vlog) : vlog[i].step = step
VPassed(step) == \E i \in 1..Len(vlog) : vlog[i].step = step /\ vlog[i].zero

\* The checks run in the fixed order and nothing runs after a non-zero exit.
FailFastInOrder ==
    /\ Len(ChecksRun) <= 4
    /\ \A i \in 1..Len(ChecksRun) : ChecksRun[i].step = CheckOrder[i]
    /\ \A i \in 1..Len(vlog) : ~vlog[i].zero => (i = Len(vlog) /\ vstatus = "failed")

\* C7 as stated: the checks run in the order shellcheck, jq, validate-modules,
\* validate-packages and validate fails fast; with a malformed packages.json
\* and clean shell scripts shellcheck runs to completion, validate fails at
\* the jq check and neither validation script is ever run.
C7_FailsAtJson ==
    /\ FailFastInOrder
    /\ (~vsrc.jq /\ vsrc.shellcheck =>
          /\ ~VRan("validate-modules") /\ ~VRan("validate-packages")
          /\ vstatus # "ok"
          /\ (vstatus = "failed" =>
                /\ VPassed("shellcheck")
                /\ vlog[Len(vlog)] = [step |-> "jq", zero |-> FALSE]))

\* C7 as amended: the same, for the runs in which the base image is pulled and
\* the dnf install of the tools exits zero (otherwise validate fails there,
\* before shellcheck has run).
C7_FailsAtJsonAfterSetup ==
    /\ FailFastInOrder
    /\ (~vsrc.jq /\ vsrc.shellcheck =>
          /\ ~VRan("validate-modules") /\ ~VRan("validate-packages")
          /\ vstatus # "ok"
          /\ (vstatus = "failed" /\ vsrc.pull /\ vsrc.dnf =>
                /\ VPassed("shellcheck")
                /\ vlog[Len(vlog)] = [step |-> "jq", zero |-> FALSE]))

C7_Witness ==
    /\ vstatus = "failed"
    /\ ~vsrc.jq /\ vsrc.shellcheck /\ vsrc.pull /\ vsrc.dnf
    /\ ~vsrc.modules
    /\ VPassed("shellcheck")

DiskCalls == {c \in {diskPrev, diskLast} : c.fn # "none"}
ConfigArg(c) == c.result.exec.config

\* How the tool's container resolves an absolute path: the stack of directory
\* names left after dropping "" and ".", and popping on "..".
RECURSIVE Resolve(_, _)
Resolve(segs, stack) ==
    IF Len(segs) = 0 THEN stack
    ELSE LET h == segs[1] IN
         IF h = <<>> \/ h = <<".">> THEN Resolve(Tail(segs), stack)
         ELSE IF h = <<".", ".">>
              THEN Resolve(Tail(segs),
                           IF Len(stack) = 0 THEN stack
                           ELSE SubSeq(stack, 1, Len(stack) - 1))
              ELSE Resolve(Tail(segs), Append(stack, h))

\* The path names an entry directly inside the directory mounted at /config.
InsideConfigDir(path) ==
    LET r == Resolve(Split(path), <<>>)
    IN  Len(r) = 2 /\ r[1] = <<"c", "o", "n", "f", "i", "g">>

\* C8 as stated: for every config_file, build_iso and build_qcow2 pass
\* /config/<basename> as --config; equal basenames give equal paths whatever
\* the directory prefix; and the path always names a file inside /config.
C8_ConfigByBasename ==
    /\ \A c \in DiskCalls :
          /\ ConfigArg(c) = <<"/", "c", "o", "n", "f", "i", "g", "/">>
                              \o AfterLastSlash(c.config_file)
          /\ InsideConfigDir(ConfigArg(c))
    /\ \A c, d \in DiskCalls :
          AfterLastSlash(c.config_file) = AfterLastSlash(d.config_file)
            => ConfigArg(c) = ConfigArg(d)

\* C8 as amended: the same, except that the path names a file inside /config
\* only when the basename is not empty, "." or ".." (a config_file that is
\* empty or ends in "/" gives /config/ itself, ".." gives /config/..).
C8_ConfigByProperBasename ==
    /\ \A c \in DiskCalls :
          /\ ConfigArg(c) = <<"/", "c", "o", "n", "f", "i", "g", "/">>
                              \o AfterLastSlash(c.config_file)
          /\ (AfterLastSlash(c.config_file) \notin {<<>>, <<".">>, <<".", ".">>}
                <=> InsideConfigDir(ConfigArg(c)))
    /\ \A c, d \in DiskCalls :
          AfterLastSlash(c.config_file) = AfterLastSlash(d.config_file)
            => ConfigArg(c) = ConfigArg(d)

C8_Witness ==
    /\ diskPrev.fn = "build_iso" /\ diskLast.fn = "build_qcow2"
    /\ diskPrev.config_file = <<"a">>
    /\ diskLast.config_file = <<"/", "a">>
    /\ ConfigArg(diskPrev) = ConfigArg(diskLast)
    /\ InsideConfigDir(ConfigArg(diskLast))

BuildCalls == {c \in {buildPrev, buildLast} : c.fn # "none"}
ArgsPassed(c) == {c.container[1].build_args[i] : i \in 1..Len(c.container[1].build_args)}

\* C9 as stated: the build arguments are exactly IMAGE_NAME=image_name and
\* SHA_HEAD_SHORT=git_commit, so two calls with the same inputs pass the same
\* arguments; through ci_pipeline image_name is the last "/"-separated segment
\* of repository.
C9_BuildArgsDeterministic ==
    /\ \A c \in BuildCalls :
          /\ ArgsPassed(c) = {[name |-> "IMAGE_NAME", value |-> c.kwargs.image_name],
                              [name |-> "SHA_HEAD_SHORT", value |-> c.kwargs.git_commit]}
          /\ (c.fn = "ci_pipeline" =>
                c.kwargs.image_name = AfterLastSlash(c.repository))
    /\ \A c, d \in BuildCalls :
          c.kwargs = d.kwargs => ArgsPassed(c) = ArgsPassed(d)

\* C9 as amended: the same, except that through ci_pipeline image_name is the
\* last "/"-separated segment of a non-empty repository and
\* "dudleys-second-bedroom" when repository is the empty string.
C9_BuildArgsDeterministicDefaultName ==
    /\ \A c \in BuildCalls :
          /\ ArgsPassed(c) = {[name |-> "IMAGE_NAME", value |-> c.kwargs.image_name],
                              [name |-> "SHA_HEAD_SHORT", value |-> c.kwargs.git_commit]}
          /\ (c.fn = "ci_pipeline" =>
                c.kwargs.image_name =
                  IF c.repository = <<>>
                  THEN <<"d", "u", "d", "l", "e", "y", "s", "-", "s", "e", "c", "o",
                         "n", "d", "-", "b", "e", "d", "r", "o", "o", "m">>
                  ELSE AfterLastSlash(c.repository))
    /\ \A c, d \in BuildCalls :
          c.kwargs = d.kwargs => ArgsPassed(c) = ArgsPassed(d)

C9_Witness ==
    /\ buildPrev.fn = "build" /\ buildLast.fn = "ci_pipeline"
    /\ buildLast.repository = <<"/", "a">>
    /\ buildPrev.kwargs = buildLast.kwargs
    /\ ArgsPassed(buildPrev) = ArgsPassed(buildLast)

\* C10: the registry is authenticated to, and the image pushed, only if
\* publish_image is true, username and password are present, validation and
\* build have completed successfully and, when run_tests is true, so have the
\* tests; the reference pushed is registry/repository:tag of the invocation.
C10_PushOnlyAfterSuccess ==
    PipelineRunning =>
      /\ (Ran("registry-auth") \/ Ran("push") \/ pushedRef # {} =>
            /\ inputs.publish_image
            /\ inputs.username # NoSecret /\ inputs.password # NoSecret
            /\ StageCompleted("validate")
            /\ StageCompleted("build")
            /\ (inputs.run_tests =>
                  StageCompleted("test") /\ HasLine(results, "test", "success")))
      /\ \A i \in 1..Len(engineLog) :
            engineLog[i].step = "push" =>
              engineLog[i].ref = inputs.registry \o <<"/">> \o inputs.repository
                                   \o <<":">> \o inputs.tag
      /\ (pushedRef # {} =>
            /\ StageCompleted("publish")
            /\ pushedRef = {inputs.registry \o <<"/">> \o inputs.repository
                              \o <<":">> \o inputs.tag})

C10_Witness ==
    /\ pc = "done"
    /\ pushedRef # {}
    /\ inputs.run_tests
    /\ inputs.tag = <<"v", "1">>

====
